---- MODULE Spec2Model ----
(***************************************************************************)
(* A model of app.py: the JSON document store (save_resume_data,           *)
(* load_resume_data, get_saved_resumes), the PDF element builder           *)
(* (save_to_pdf), the three generation calls, the index handler and the    *)
(* download handler.                                                       *)
(*                                                                         *)
(* Text is a sequence of characters; a character is a one-character        *)
(* string, or the name of a code point ("U+26A0") for a non-ASCII          *)
(* character.  A file is a sequence of bytes, written the same way; the    *)
(* byte "0xFF" is one that is no valid UTF-8.                              *)
(***************************************************************************)
EXTENDS Integers, Sequences, FiniteSets, TLC

VARIABLES store, resp, hist, thr, doc

vars == <<store, resp, hist, thr, doc>>

----------------------------------------------------------------------------
(* str methods the program uses                                            *)

StartsWithAt(s, i, p) ==
    /\ i + Len(p) - 1 <= Len(s)
    /\ \A j \in 1..Len(p) : s[i + j - 1] = p[j]

\* p in s
Contains(s, p) == \E i \in 1..(Len(s) - Len(p) + 1) : StartsWithAt(s, i, p)

EndsWith(s, p) == Len(p) <= Len(s) /\ StartsWithAt(s, Len(s) - Len(p) + 1, p)

RECURSIVE ReplaceFrom(_, _, _, _)
ReplaceFrom(s, i, old, new) ==
    IF i > Len(s) THEN <<>>
    ELSE IF StartsWithAt(s, i, old)
         THEN new \o ReplaceFrom(s, i + Len(old), old, new)
         ELSE <<s[i]>> \o ReplaceFrom(s, i + 1, old, new)

\* s.replace(old, new): every non-overlapping occurrence, left to right
Replace(s, old, new) == ReplaceFrom(s, 1, old, new)

Whitespace == {" ", "\n", "\t", "\r"}

\* s.strip()
Strip(s) ==
    LET keep == {i \in 1..Len(s) : s[i] \notin Whitespace}
    IN  IF keep = {} THEN <<>>
        ELSE LET lo == CHOOSE i \in keep : \A j \in keep : i <= j
                 hi == CHOOSE i \in keep : \A j \in keep : j <= i
             IN  SubSeq(s, lo, hi)

RECURSIVE SplitFrom(_, _, _)
SplitFrom(s, i, sep) ==
    LET hits == {j \in i..Len(s) : s[j] = sep}
    IN  IF hits = {} THEN <<SubSeq(s, i, Len(s))>>
        ELSE LET j == CHOOSE h \in hits : \A g \in hits : h <= g
             IN  <<SubSeq(s, i, j - 1)>> \o SplitFrom(s, j + 1, sep)

\* s.split(sep) for a one-character separator
Split(s, sep) == SplitFrom(s, 1, sep)

\* F(v), with v evaluated once
Let(v, F(_)) == CHOOSE y \in {F(w) : w \in {v}} : TRUE

----------------------------------------------------------------------------
(* json.dump(obj, f, indent=4) and json.load(f)                            *)
(*                                                                         *)
(* A dict is a sequence of <<key, value>> pairs in insertion order, with   *)
(* string keys; a value is Str(text) or Obj, an object json cannot encode. *)

Str(s) == [t |-> "str", s |-> s]
Obj == [t |-> "object", s |-> <<>>]

HexDigits == <<"0", "1", "2", "3", "4", "5", "6", "7", "8", "9",
               "a", "b", "c", "d", "e", "f">>

\* the non-ASCII characters of the model and their code points
CodePoint == [c \in {"U+26A0", "U+FE0F", "U+2022", "U+274C"} |->
                CASE c = "U+26A0" -> <<"2", "6", "a", "0">>
                  [] c = "U+FE0F" -> <<"f", "e", "0", "f">>
                  [] c = "U+2022" -> <<"2", "0", "2", "2">>
                  [] c = "U+274C" -> <<"2", "7", "4", "c">>]

NonAscii == DOMAIN CodePoint

\* ensure_ascii string escaping of one character
EscapeChar(c) ==
    CASE c = "\"" -> <<"\\", "\"">>
      [] c = "\\" -> <<"\\", "\\">>
      [] c = "\n" -> <<"\\", "n">>
      [] c = "\t" -> <<"\\", "t">>
      [] c = "\r" -> <<"\\", "r">>
      [] c \in NonAscii -> <<"\\", "u">> \o CodePoint[c]
      [] OTHER -> <<c>>

\* the escapes of s[lo..hi], by halves
RECURSIVE EscapeRange(_, _, _)
EscapeRange(s, lo, hi) ==
    IF lo > hi THEN <<>>
    ELSE IF lo = hi THEN EscapeChar(s[lo])
    ELSE LET mid == (lo + hi) \div 2
         IN  EscapeRange(s, lo, mid) \o EscapeRange(s, mid + 1, hi)

EncodeString(s) == <<"\"">> \o EscapeRange(s, 1, Len(s)) \o <<"\"">>

Indent == <<" ", " ", " ", " ">>
NewlineIndent == <<"\n">> \o Indent

\* the chunks of _iterencode_dict from item i on; json.dump stops at item
\* stop, after its key, on a TypeError
RECURSIVE DumpItems(_, _, _)
DumpItems(d, i, stop) ==
    IF i > Len(d) THEN <<"\n", "}">>
    ELSE (IF i = 1 THEN <<>> ELSE <<",">> \o NewlineIndent)
         \o EncodeString(d[i][1]) \o <<":", " ">>
         \o (IF i = stop THEN <<>>
             ELSE EncodeString(d[i][2].s) \o DumpItems(d, i + 1, stop))

\* The text json.dump has handed to f.write when it stops, and whether it
\* stopped on a TypeError
Dump(d) ==
    LET bad == {i \in 1..Len(d) : d[i][2].t # "str"}
    IN  IF Len(d) = 0 THEN [text |-> <<"{", "}">>, raised |-> FALSE]
        ELSE [text |-> <<"{">> \o NewlineIndent \o
                       DumpItems(d, 1, IF bad = {} THEN 0
                                       ELSE CHOOSE i \in bad : \A j \in bad : i <= j),
              raised |-> bad # {}]

JsonWhitespace == {" ", "\n", "\t", "\r"}

\* the first index >= i holding no JSON whitespace (Len(s) + 1 when none)
SkipWs(s, i) ==
    LET rest == {j \in i..Len(s) : s[j] \notin JsonWhitespace}
    IN  IF rest = {} THEN Len(s) + 1
        ELSE CHOOSE j \in rest : \A k \in rest : j <= k

HexValue(c) ==
    IF \E k \in 1..16 : HexDigits[k] = c
    THEN (CHOOSE k \in 1..16 : HexDigits[k] = c) - 1
    ELSE -1

\* the character of the model with this \uXXXX escape, "?" when the model
\* has no name for it
FromCodePoint(h) ==
    IF \E c \in NonAscii : CodePoint[c] = h
    THEN CHOOSE c \in NonAscii : CodePoint[c] = h
    ELSE "?"

Failed == [ok |-> FALSE, val |-> <<>>, next |-> 0]

\* the character an escape sequence at s[i] = "\\" stands for and its
\* length (0: an invalid escape)
Unescape(s, i) ==
    IF i + 1 > Len(s) THEN [c |-> "?", n |-> 0]
    ELSE LET e == s[i + 1]
         IN  CASE e = "\"" -> [c |-> "\"", n |-> 2]
               [] e = "\\" -> [c |-> "\\", n |-> 2]
               [] e = "/" -> [c |-> "/", n |-> 2]
               [] e = "n" -> [c |-> "\n", n |-> 2]
               [] e = "t" -> [c |-> "\t", n |-> 2]
               [] e = "r" -> [c |-> "\r", n |-> 2]
               [] e = "u" ->
                    IF /\ i + 5 <= Len(s)
                       /\ \A k \in 2..5 : HexValue(s[i + k]) >= 0
                    THEN [c |-> FromCodePoint(SubSeq(s, i + 2, i + 5)), n |-> 6]
                    ELSE [c |-> "?", n |-> 0]
               [] OTHER -> [c |-> "?", n |-> 0]

\* the number of backslashes that end just before s[j], from s[i] on
RECURSIVE BackslashRun(_, _, _)
BackslashRun(s, i, j) ==
    IF j - 1 < i \/ s[j - 1] # "\\" THEN 0 ELSE 1 + BackslashRun(s, i, j - 1)

\* s[k] starts an escape sequence of the string that starts at s[i]
EscapeAt(s, i, k) == s[k] = "\\" /\ BackslashRun(s, i, k) % 2 = 0

\* s[k] lies inside an escape sequence, after its backslash
InEscape(s, i, k) ==
    \E d \in 1..5 :
        /\ k - d >= i
        /\ EscapeAt(s, i, k - d)
        /\ d < Unescape(s, k - d).n

\* the text that s[lo..hi] of the string starting at s[i] stands for, by
\* halves
RECURSIVE UnescapeRange(_, _, _, _)
UnescapeRange(s, i, lo, hi) ==
    IF lo > hi THEN <<>>
    ELSE IF lo = hi
    THEN IF EscapeAt(s, i, lo) THEN <<Unescape(s, lo).c>>
         ELSE IF InEscape(s, i, lo) THEN <<>>
         ELSE <<s[lo]>>
    ELSE LET mid == (lo + hi) \div 2
         IN  UnescapeRange(s, i, lo, mid) \o UnescapeRange(s, i, mid + 1, hi)

\* py_scanstring: s[i] is the character after the opening quote.  The
\* decoded text and the index after the closing quote: the string ends at
\* the first quote no escape sequence holds, and it must hold no control
\* character and no invalid escape sequence.
ScanString(s, i) ==
    LET quotes == {j \in i..Len(s) : s[j] = "\"" /\ BackslashRun(s, i, j) % 2 = 0}
    IN  IF quotes = {} THEN Failed
        ELSE LET close == CHOOSE j \in quotes : \A k \in quotes : j <= k
             IN  IF \E k \in i..(close - 1) :
                        \/ s[k] \in {"\n", "\t", "\r"}
                        \/ EscapeAt(s, i, k) /\ Unescape(s, k).n = 0
                 THEN Failed
                 ELSE [ok |-> TRUE, val |-> UnescapeRange(s, i, i, close - 1),
                       next |-> close + 1]

\* dict(pairs): a later pair for a key replaces the earlier one's value
RECURSIVE DictOf(_, _)
DictOf(pairs, acc) ==
    IF pairs = <<>> THEN acc
    ELSE LET p == Head(pairs)
             at == {i \in 1..Len(acc) : acc[i][1] = p[1]}
         IN  DictOf(Tail(pairs),
                 IF at = {} THEN Append(acc, p)
                 ELSE [acc EXCEPT ![CHOOSE i \in at : TRUE] = p])

\* JSONObject: s[i] is the character after "{".  Values are strings: the
\* files of the model hold no other JSON value.
RECURSIVE ScanPairs(_, _, _)
ScanPairs(s, i, acc) ==
    LET k == SkipWs(s, i)
    IN  IF k > Len(s) \/ s[k] # "\"" THEN Failed
        ELSE LET key == ScanString(s, k + 1)
                 c == SkipWs(s, key.next)
             IN  IF ~key.ok \/ c > Len(s) \/ s[c] # ":" THEN Failed
                 ELSE LET v == SkipWs(s, c + 1)
                      IN  IF v > Len(s) \/ s[v] # "\"" THEN Failed
                          ELSE LET val == ScanString(s, v + 1)
                                   e == SkipWs(s, val.next)
                                   got == Append(acc, <<key.val, Str(val.val)>>)
                               IN  IF ~val.ok \/ e > Len(s) THEN Failed
                                   ELSE IF s[e] = "}"
                                        THEN [ok |-> TRUE, val |-> DictOf(got, <<>>),
                                              next |-> e + 1]
                                   ELSE IF s[e] = ","
                                        THEN ScanPairs(s, e + 1, got)
                                   ELSE Failed

ScanObject(s, i) ==
    LET k == SkipWs(s, i)
    IN  IF k <= Len(s) /\ s[k] = "}"
        THEN [ok |-> TRUE, val |-> <<>>, next |-> k + 1]
        ELSE ScanPairs(s, i, <<>>)

\* JSONDecoder.decode: one value, then nothing but whitespace
Decode(s) ==
    LET i == SkipWs(s, 1)
    IN  IF i > Len(s) \/ s[i] # "{" THEN Failed
        ELSE LET o == ScanObject(s, i + 1)
             IN  IF o.ok /\ SkipWs(s, o.next) > Len(s) THEN o ELSE Failed

----------------------------------------------------------------------------
(* Exceptions: each class with the classes an except clause for it matches *)

Mro == [e \in {"OSError", "TypeError", "JSONDecodeError", "UnicodeDecodeError"} |->
          CASE e = "OSError" -> {"OSError", "Exception"}
            [] e = "TypeError" -> {"TypeError", "Exception"}
            [] e = "JSONDecodeError" -> {"JSONDecodeError", "ValueError", "Exception"}
            [] e = "UnicodeDecodeError" ->
                 {"UnicodeDecodeError", "UnicodeError", "ValueError", "Exception"}]

NoExc == "none"

\* save_resume_data: except Exception
SaveCatchesOnlyOSError(e) == "OSError" \in Mro[e]
SaveCatches(e) == "Exception" \in Mro[e]

\* load_resume_data: except json.JSONDecodeError
LoadCatches(e) == "JSONDecodeError" \in Mro[e]

----------------------------------------------------------------------------
(* The document store.  store maps each file name in SAVE_DIR to the bytes *)
(* of the file; SAVE_DIR is made at start-up and holds no directory.       *)

Suffix ==
    <<"_", "r", "e", "s", "u", "m", "e", ".", "j", "s", "o", "n">>

\* f"{name.replace(' ', '_')}_resume.json", the path below SAVE_DIR, in
\* save_resume_data
FileName(name) == Replace(name, <<" ">>, <<"_">>) \o Suffix

\* the same in load_resume_data
LoadFileNameRaw(name) == name \o Suffix
LoadFileName(name) == Replace(name, <<" ">>, <<"_">>) \o Suffix

\* open(path, "w") needs the directory of the path; only SAVE_DIR exists
ParentExists(fn) == ~Contains(fn, <<"/">>)

BadByte == "0xFF"

\* What the file system does to one save: whether open fails, and the number
\* of bytes that reach the file before a write fails (-1: the write succeeds)
EnvOk == [open |-> TRUE, cut |-> -1]

SaveTryAppend(st, name, data, env) ==
    LET fn == FileName(name)
    IN  IF ~ParentExists(fn) \/ ~env.open
        THEN [store |-> st, exc |-> "OSError"]
        ELSE Let(Dump(data), LAMBDA d :
                 LET short == env.cut >= 0 /\ env.cut < Len(d.text)
                     old == IF fn \in DOMAIN st THEN st[fn] ELSE <<>>
                 IN  [store |-> (fn :> old \o (IF short
                                                THEN SubSeq(d.text, 1, env.cut)
                                                ELSE d.text)) @@ st,
                      exc |-> IF d.raised THEN "TypeError"
                              ELSE IF short THEN "OSError" ELSE NoExc])

\* the file after open(filename, "w"), json.dump and the close of the with
\* block, and the exception raised inside the try block
SaveTry(st, name, data, env) ==
    LET fn == FileName(name)
    IN  IF ~ParentExists(fn) \/ ~env.open
        THEN [store |-> st, exc |-> "OSError"]
        ELSE Let(Dump(data), LAMBDA d :
                 LET short == env.cut >= 0 /\ env.cut < Len(d.text)
                 IN  [store |-> (fn :> IF short THEN SubSeq(d.text, 1, env.cut)
                                       ELSE d.text) @@ st,
                      exc |-> IF d.raised THEN "TypeError"
                              ELSE IF short THEN "OSError" ELSE NoExc])

\* save_resume_data(name, resume_data): the store afterwards, the exception
\* the try block raised and whether it leaves the function
save_resume_data(st, name, data, env) ==
    Let(SaveTry(st, name, data, env), LAMBDA r :
        [store |-> r.store, exc |-> r.exc,
         propagated |-> r.exc # NoExc /\ ~SaveCatches(r.exc)])

None == [kind |-> "None", val |-> <<>>, exc |-> NoExc]
Raise(e) == [kind |-> "raise", val |-> <<>>, exc |-> e]
Value(v) == [kind |-> "value", val |-> v, exc |-> NoExc]

\* f.read() of a file opened in text mode: UTF-8 decoding
ReadRaises(bytes) == \E i \in 1..Len(bytes) : bytes[i] = BadByte

\* load_resume_data(name)
load_resume_data(st, name) ==
    LET fn == LoadFileName(name)
    IN  IF fn \in DOMAIN st
        THEN IF ReadRaises(st[fn])
             THEN IF LoadCatches("UnicodeDecodeError") THEN None
                  ELSE Raise("UnicodeDecodeError")
             ELSE Let(Decode(st[fn]), LAMBDA dec :
                      IF dec.ok THEN Value(dec.val)
                      ELSE IF LoadCatches("JSONDecodeError") THEN None
                      ELSE Raise("JSONDecodeError"))
        ELSE None

\* file.replace("_resume.json", "").replace("_", " ")
Recover(file) == Replace(Replace(file, Suffix, <<>>), <<"_">>, <<" ">>)

\* get_saved_resumes() when os.listdir(SAVE_DIR) returns listing
RECURSIVE get_saved_resumes(_)
get_saved_resumes(listing) ==
    IF listing = <<>> THEN <<>>
    ELSE (IF EndsWith(Head(listing), Suffix)
          THEN <<Recover(Head(listing))>> ELSE <<>>)
         \o get_saved_resumes(Tail(listing))

\* the orders os.listdir may return the entries in
Listings(st) ==
    {l \in [1..Cardinality(DOMAIN st) -> DOMAIN st] :
        \A i, j \in DOMAIN l : i # j => l[i] # l[j]}

NotFoundText ==
    <<"F", "i", "l", "e", " ", "n", "o", "t", " ", "f", "o", "u", "n", "d",
      ".">>

\* download_resume(filename)
download_resume_normalized(st, filename) ==
    LET fn == Replace(filename, <<" ">>, <<"_">>)
    IN  IF fn \in DOMAIN st
        THEN [status |-> 200, body |-> st[fn]]
        ELSE [status |-> 404, body |-> NotFoundText]
download_resume(st, filename) ==
    IF filename \in DOMAIN st
    THEN [status |-> 200, body |-> st[filename]]
    ELSE [status |-> 404, body |-> NotFoundText]

----------------------------------------------------------------------------
(* save_to_pdf: the list of flowables handed to doc.build                  *)

NoContent ==
    <<"N", "o", " ", "c", "o", "n", "t", "e", "n", "t", " ", "a", "v", "a",
      "i", "l", "a", "b", "l", "e", ".">>

Bullet == "U+2022"

Paragraph(text, style) == [kind |-> "Paragraph", text |-> text, style |-> style]
Spacer == [kind |-> "Spacer", text |-> <<>>, style |-> "0.2 inch"]

Bold(text) == <<"<", "b", ">">> \o text \o <<"<", "/", "b", ">">>

\* the flowables of one line of the loop
LineElementsBulletFirst(line) ==
    IF Contains(line, <<"-">>)
    THEN <<Paragraph(<<Bullet, " ">> \o Replace(line, <<"-">>, <<>>), "Normal")>>
    ELSE IF Contains(line, <<"*", "*">>)
    THEN <<Spacer, Paragraph(Bold(Replace(line, <<"*", "*">>, <<>>)), "Heading2")>>
    ELSE <<Paragraph(line, "Normal")>>
LineElements(line) ==
    IF Contains(line, <<"*", "*">>)
    THEN <<Spacer, Paragraph(Bold(Replace(line, <<"*", "*">>, <<>>)), "Heading2")>>
    ELSE IF Contains(line, <<"-">>)
    THEN <<Paragraph(<<Bullet, " ">> \o Replace(line, <<"-">>, <<>>), "Normal")>>
    ELSE <<Paragraph(line, "Normal")>>

RECURSIVE LinesElements(_, _)
LinesElements(lines, i) ==
    IF i > Len(lines) THEN <<>>
    ELSE LineElements(lines[i]) \o LinesElements(lines, i + 1)

\* save_to_pdf(text, filename): elements as doc.build receives them
save_to_pdf(text) ==
    LET shown == IF Strip(text) = <<>> THEN NoContent ELSE text
    IN  <<Paragraph(Bold(<<"R", "e", "s", "u", "m", "e">>), "Title"), Spacer>>
        \o LinesElements(Split(shown, "\n"), 1)

----------------------------------------------------------------------------
(* The generation calls.  out is what model.generate_content and           *)
(* response.text do: [ok |-> TRUE, text |-> the text] or                   *)
(* [ok |-> FALSE, text |-> str(e)] for the exception e they raise.         *)

ResumeMissingText ==
    <<"E", "r", "r", "o", "r", ":", " ", "M", "i", "s", "s", "i", "n", "g",
      " ", "r", "e", "q", "u", "i", "r", "e", "d", " ", "f", "i", "e", "l",
      "d", "s", " ", "f", "o", "r", " ", "r", "e", "s", "u", "m", "e", " ",
      "g", "e", "n", "e", "r", "a", "t", "i", "o", "n", ".">>

ResumeFailText ==
    <<"U+26A0", "U+FE0F", " ", "U", "n", "a", "b", "l", "e", " ", "t", "o",
      " ", "g", "e", "n", "e", "r", "a", "t", "e", " ", "r", "e", "s", "u",
      "m", "e", " ", "d", "u", "e", " ", "t", "o", " ", "a", "n", " ", "e",
      "r", "r", "o", "r", ".">>

AtsFailText ==
    <<"U+26A0", "U+FE0F", " ", "U", "n", "a", "b", "l", "e", " ", "t", "o",
      " ", "a", "n", "a", "l", "y", "z", "e", " ", "A", "T", "S", " ", "c",
      "o", "m", "p", "a", "t", "i", "b", "i", "l", "i", "t", "y", ".">>

CoverMissingText ==
    <<"U+26A0", "U+FE0F", " ", "E", "r", "r", "o", "r", ":", " ", "M", "i",
      "s", "s", "i", "n", "g", " ", "r", "e", "q", "u", "i", "r", "e", "d",
      " ", "f", "i", "e", "l", "d", "s", " ", "f", "o", "r", " ", "c", "o",
      "v", "e", "r", " ", "l", "e", "t", "t", "e", "r", " ", "g", "e", "n",
      "e", "r", "a", "t", "i", "o", "n", ".">>

CoverFailPrefix ==
    <<"U+26A0", "U+FE0F", " ", "E", "r", "r", "o", "r", " ", "g", "e", "n",
      "e", "r", "a", "t", "i", "n", "g", " ", "c", "o", "v", "e", "r", " ",
      "l", "e", "t", "t", "e", "r", " ", "c", "o", "n", "t", "e", "n", "t",
      ":", " ">>

\* all([...]) over strings
All(fields) == \A i \in 1..Len(fields) : fields[i] # <<>>

generate_resume(name, job_title, experience_summary, work_experience, education, certifications, skills, out) ==
    IF ~All(<<name, job_title, experience_summary, work_experience,
              education, skills>>)
    THEN ResumeMissingText
    ELSE IF out.ok THEN Strip(out.text) ELSE ResumeFailText

analyze_ats_score(resume_text, out) ==
    IF out.ok THEN Strip(out.text) ELSE AtsFailText

generate_cover_letter(name, job_title, company, experience_summary, skills, out) ==
    IF ~All(<<name, job_title, company, experience_summary, skills>>)
    THEN CoverMissingText
    ELSE IF out.ok THEN Strip(out.text) ELSE CoverFailPrefix \o out.text

\* markdown(text) for one line of text holding no markdown syntax
Markdown(text) == <<"<", "p", ">">> \o text \o <<"<", "/", "p", ">">>

----------------------------------------------------------------------------
(* index()                                                                 *)

FieldKey(f) ==
    CASE f = "name" -> <<"n", "a", "m", "e">>
      [] f = "job_title" -> <<"j", "o", "b", "_", "t", "i", "t", "l", "e">>
      [] f = "company" -> <<"c", "o", "m", "p", "a", "n", "y">>
      [] f = "experience_summary" ->
           <<"e", "x", "p", "e", "r", "i", "e", "n", "c", "e", "_", "s", "u",
             "m", "m", "a", "r", "y">>
      [] f = "work_experience" ->
           <<"w", "o", "r", "k", "_", "e", "x", "p", "e", "r", "i", "e", "n",
             "c", "e">>
      [] f = "education" -> <<"e", "d", "u", "c", "a", "t", "i", "o", "n">>
      [] f = "certifications" ->
           <<"c", "e", "r", "t", "i", "f", "i", "c", "a", "t", "i", "o", "n",
             "s">>
      [] f = "skills" -> <<"s", "k", "i", "l", "l", "s">>
      [] f = "resume_text" ->
           <<"r", "e", "s", "u", "m", "e", "_", "t", "e", "x", "t">>
      [] f = "cover_letter_text" ->
           <<"c", "o", "v", "e", "r", "_", "l", "e", "t", "t", "e", "r", "_",
             "t", "e", "x", "t">>
      [] f = "ats_feedback" ->
           <<"a", "t", "s", "_", "f", "e", "e", "d", "b", "a", "c", "k">>

PyNone == [t |-> "None", s |-> <<>>]

\* The three texts and the record index builds from the posted form, given
\* what the three upstream calls do
IndexTexts(form, gen) ==
    LET name == Strip(form.name)
        job_title == Strip(form.job_title)
        company == Strip(form.company)
        experience_summary == Strip(form.experience_summary)
        work_experience == Strip(form.work_experience)
        education == Strip(form.education)
        certifications == Strip(form.certifications)
        skills == Strip(form.skills)
        resume_text == generate_resume(name, job_title, experience_summary,
                           work_experience, education, certifications, skills,
                           gen.resume)
        ats_feedback == Markdown(analyze_ats_score(resume_text, gen.ats))
        cover_letter_text == generate_cover_letter(name, job_title, company,
                                 experience_summary, skills, gen.cover)
    IN  [name |-> name,
         resume_text |-> resume_text,
         cover_letter_text |-> cover_letter_text,
         ats_feedback |-> ats_feedback,
         resume_data |->
            << <<FieldKey("name"), Str(name)>>,
               <<FieldKey("job_title"), Str(job_title)>>,
               <<FieldKey("company"), Str(company)>>,
               <<FieldKey("experience_summary"), Str(experience_summary)>>,
               <<FieldKey("work_experience"), Str(work_experience)>>,
               <<FieldKey("education"), Str(education)>>,
               <<FieldKey("certifications"), Str(certifications)>>,
               <<FieldKey("skills"), Str(skills)>>,
               <<FieldKey("resume_text"), Str(resume_text)>>,
               <<FieldKey("cover_letter_text"), Str(cover_letter_text)>>,
               <<FieldKey("ats_feedback"), Str(ats_feedback)>> >>]

\* index() for a POST holding generate_resume_btn: the store afterwards and
\* the response.  saved_resumes is read before the save.
index(st, listing, form, gen, env) ==
    Let(IndexTexts(form, gen), LAMBDA t :
    Let(save_resume_data(st, t.name, t.resume_data, env), LAMBDA saved :
        [store |-> saved.store,
         exc |-> saved.exc,
         name |-> t.name,
         data |-> t.resume_data,
         status |-> IF saved.propagated THEN 500 ELSE 200,
         resume_text |-> Str(t.resume_text),
         cover_letter_text |-> Str(t.cover_letter_text),
         ats_feedback |-> Str(t.ats_feedback),
         saved_resumes |-> get_saved_resumes(listing)]))

\* index() for a GET, or a POST without generate_resume_btn
index_page(st, listing) ==
    [store |-> st, exc |-> NoExc, name |-> <<>>, data |-> <<>>,
     status |-> 200,
     resume_text |-> PyNone, cover_letter_text |-> PyNone,
     ats_feedback |-> PyNone,
     saved_resumes |-> get_saved_resumes(listing)]

----------------------------------------------------------------------------
(* Inputs of the model                                                     *)

MaxOps == 3
MaxRequests == 2

NameSpace == <<"a", " ", "b">>
NameUnder == <<"a", "_", "b">>
NameC == <<"c">>
NameSlash == <<"a", "/", "b">>
NameSuffix == <<"x">> \o Suffix

Names == {NameSpace, NameUnder, NameC, NameSlash, NameSuffix}

RecA ==
    << <<FieldKey("name"), Str(NameSpace)>>,
       <<FieldKey("resume_text"),
         Str(<<"*", "*", "\"", "\\", "\n", "-", " ", "U+2022">>)>> >>

RecB == << <<FieldKey("name"), Str(NameC)>> >>

RecBad ==
    << <<FieldKey("name"), Str(NameC)>>, <<FieldKey("skills"), Obj>> >>

\* every value a string: what json.dump can encode
Serializable(data) == \A i \in 1..Len(data) : data[i][2].t = "str"

OpenFails == [open |-> FALSE, cut |-> -1]
WriteFails(n) == [open |-> TRUE, cut |-> n]

\* the calls of save_resume_data: name, record, file system
SaveInputs ==
    {<<NameSpace, RecA, EnvOk>>, <<NameUnder, RecB, EnvOk>>,
     <<NameC, RecB, EnvOk>>, <<NameC, RecA, EnvOk>>,
     <<NameSuffix, RecB, EnvOk>>, <<NameSlash, RecA, EnvOk>>,
     <<NameC, RecBad, EnvOk>>, <<NameSpace, RecB, OpenFails>>,
     <<NameUnder, RecA, WriteFails(12)>>, <<NameC, RecA, WriteFails(0)>>}

CorruptBytes == {<<BadByte>>, <<"{", "\"", "n">>}

DownloadNames ==
    {FileName(n) : n \in {NameSpace, NameC}} \cup {NameSpace \o Suffix, NameC}

FormFull ==
    [name |-> <<" ", "a", " ", "b">>, job_title |-> <<"j">>,
     company |-> <<"k">>, experience_summary |-> <<"e">>,
     work_experience |-> <<"w">>, education |-> <<"d">>,
     certifications |-> <<>>, skills |-> <<"s", " ">>]

FormNoSkills == [FormFull EXCEPT !.name = NameC, !.skills = <<" ">>]

Forms == {FormFull, FormNoSkills}

Ok(text) == [ok |-> TRUE, text |-> text]
Fail(msg) == [ok |-> FALSE, text |-> msg]

Quota == <<"q", "u", "o", "t", "a">>
Timeout == <<"t", "i", "m", "e", "o", "u", "t">>

GenText == <<" ", "*", "*", "S", "*", "*", "\n", "-", " ", "p", "y", "\n">>

Gen(r, a, c) == [resume |-> r, ats |-> a, cover |-> c]

\* what the three upstream calls of one request do
Gens ==
    {Gen(Ok(GenText), Ok(GenText), Ok(GenText)),
     Gen(Fail(Quota), Ok(GenText), Ok(GenText)),
     Gen(Ok(GenText), Fail(Timeout), Ok(GenText)),
     Gen(Ok(GenText), Ok(GenText), Fail(Quota)),
     Gen(Ok(GenText), Ok(GenText), Fail(Timeout)),
     Gen(Fail(Timeout), Fail(Quota), Fail(Quota))}

----------------------------------------------------------------------------
(* The handlers, one request at a time.  hist records what has happened:   *)
(* the number of operations, whether every write so far was a save that    *)
(* raised nothing, the last such save per key, and the texts the           *)
(* generation calls returned when the upstream call failed.                *)

\* the key of a name: each space an underscore
Key(name) == [i \in DOMAIN name |-> IF name[i] = " " THEN "_" ELSE name[i]]

Idle == [op |-> "start"]

Init ==
    /\ store = <<>>
    /\ resp = Idle
    /\ hist = [ops |-> 0, clean |-> TRUE, last |-> <<>>,
               placeholders |-> [resume |-> {}, ats |-> {}, cover |-> {}]]
    /\ thr = <<>>
    /\ doc = <<>>

Saved(h, name, data, exc) ==
    [h EXCEPT !.ops = @ + 1,
              !.clean = @ /\ exc = NoExc,
              !.last = IF exc = NoExc
                       THEN (Key(name) :> [name |-> name, data |-> data]) @@ @
                       ELSE @]

Save(name, data, env) ==
    /\ hist.ops < MaxOps
    /\ \E r \in {save_resume_data(store, name, data, env)} :
           /\ store' = r.store
           /\ resp' = [op |-> "save", name |-> name, data |-> data,
                       exc |-> r.exc, propagated |-> r.propagated,
                       status |-> 0, before |-> load_resume_data(store, name)]
           /\ hist' = Saved(hist, name, data, r.exc)
    /\ UNCHANGED <<thr, doc>>

Load(name) ==
    /\ hist.ops < MaxOps
    /\ resp' = [op |-> "load", name |-> name,
                result |-> load_resume_data(store, name)]
    /\ hist' = [hist EXCEPT !.ops = @ + 1]
    /\ UNCHANGED <<store, thr, doc>>

List(listing) ==
    /\ hist.ops < MaxOps
    /\ resp' = [op |-> "list", names |-> get_saved_resumes(listing)]
    /\ hist' = [hist EXCEPT !.ops = @ + 1]
    /\ UNCHANGED <<store, thr, doc>>

Download(filename) ==
    /\ hist.ops < MaxOps
    /\ resp' = [op |-> "download", filename |-> filename,
                result |-> download_resume(store, filename)]
    /\ hist' = [hist EXCEPT !.ops = @ + 1]
    /\ UNCHANGED <<store, thr, doc>>

\* another program writes bytes to the path of a name
ExternalWrite(name, bytes) ==
    /\ hist.ops < MaxOps
    /\ ParentExists(FileName(name))
    /\ store' = (FileName(name) :> bytes) @@ store
    /\ resp' = [op |-> "external", name |-> name]
    /\ hist' = [hist EXCEPT !.ops = @ + 1, !.clean = FALSE]
    /\ UNCHANGED <<thr, doc>>

Next ==
    \/ \E in \in SaveInputs : Save(in[1], in[2], in[3])
    \/ \E name \in Names : Load(name)
    \/ \E listing \in Listings(store) : List(listing)
    \/ \E filename \in DownloadNames : Download(filename)
    \/ \E name \in {NameSpace, NameC}, bytes \in CorruptBytes :
          ExternalWrite(name, bytes)

Spec == Init /\ [][Next]_vars

----------------------------------------------------------------------------
(* Requests to index, one at a time                                        *)

\* the texts the generation calls returned for a failed upstream call
Seen(h, gen, r) ==
    [resume |-> h.placeholders.resume \cup
                  (IF r.resume_text.s # ResumeMissingText /\ ~gen.resume.ok
                   THEN {r.resume_text.s} ELSE {}),
     ats |-> h.placeholders.ats \cup
               (IF ~gen.ats.ok THEN {r.ats_feedback.s} ELSE {}),
     cover |-> h.placeholders.cover \cup
                 (IF r.cover_letter_text.s # CoverMissingText /\ ~gen.cover.ok
                  THEN {r.cover_letter_text.s} ELSE {})]

Index(listing, form, gen, env) ==
    /\ hist.ops < MaxRequests
    /\ \E r \in {index(store, listing, form, gen, env)} :
           /\ store' = r.store
           /\ resp' = [op |-> "index", name |-> r.name, data |-> r.data,
                       exc |-> r.exc, propagated |-> r.status # 200,
                       status |-> r.status, gen |-> gen,
                       page |-> [resume_text |-> r.resume_text,
                                 cover_letter_text |-> r.cover_letter_text,
                                 ats_feedback |-> r.ats_feedback,
                                 saved_resumes |-> r.saved_resumes]]
           /\ hist' = [Saved(hist, r.name, r.data, r.exc) EXCEPT
                          !.placeholders = Seen(hist, gen, r)]
    /\ UNCHANGED <<thr, doc>>

IndexGet(listing) ==
    /\ hist.ops < MaxRequests
    /\ \E r \in {index_page(store, listing)} :
           resp' = [op |-> "page", status |-> r.status,
                    page |-> [resume_text |-> r.resume_text,
                              cover_letter_text |-> r.cover_letter_text,
                              ats_feedback |-> r.ats_feedback,
                              saved_resumes |-> r.saved_resumes]]
    /\ hist' = [hist EXCEPT !.ops = @ + 1]
    /\ UNCHANGED <<store, thr, doc>>

\* save_resume_data called on its own, as a request's handler calls it
Call(data, env) ==
    /\ hist.ops < MaxRequests
    /\ \E r \in {save_resume_data(store, NameC, data, env)} :
           /\ store' = r.store
           /\ resp' = [op |-> "save", name |-> NameC, data |-> data,
                       exc |-> r.exc, propagated |-> r.propagated,
                       status |-> 0]
           /\ hist' = Saved(hist, NameC, data, r.exc)
    /\ UNCHANGED <<thr, doc>>

\* the forms posted and what the upstream calls do for each; with a
\* required field missing only the ATS call is made
IndexInputs ==
    {<<FormFull, gen>> : gen \in Gens} \cup
    {<<FormNoSkills, Gen(Ok(GenText), Ok(GenText), Ok(GenText))>>,
     <<FormNoSkills, Gen(Fail(Quota), Fail(Quota), Fail(Timeout))>>}

RequestNext ==
    \/ \E listing \in Listings(store), in \in IndexInputs,
          env \in {EnvOk, OpenFails} : Index(listing, in[1], in[2], env)
    \/ \E listing \in Listings(store) : IndexGet(listing)
    \/ \E data \in {RecB, RecBad}, env \in {EnvOk, WriteFails(12)} :
          Call(data, env)

RequestSpec == Init /\ [][RequestNext]_vars

----------------------------------------------------------------------------
(* save_to_pdf on every text of the alphabet up to MaxTextLen characters   *)

MaxTextLen == 3

RenderAlphabet == {"a", "*", "-", " ", "\n"}

Texts == UNION {[1..n -> RenderAlphabet] : n \in 0..MaxTextLen}

RenderInit ==
    /\ doc \in {[text |-> t, built |-> FALSE, elements |-> <<>>] : t \in Texts}
    /\ store = <<>>
    /\ resp = Idle
    /\ hist = <<>>
    /\ thr = <<>>

Render ==
    /\ ~doc.built
    /\ doc' = [doc EXCEPT !.built = TRUE, !.elements = save_to_pdf(doc.text)]
    /\ UNCHANGED <<store, resp, hist, thr>>

RenderNext == Render

RenderSpec == RenderInit /\ [][RenderNext]_vars

----------------------------------------------------------------------------
(* Requests in threads: save_resume_data step by step.  A record is        *)
(* shorter than the buffer of the file object, so json.dump fills the      *)
(* buffer and the close of the with block writes it at the descriptor's    *)
(* offset, 0; open(filename, "w") creates or truncates the file.           *)

NumThreads == 2

Threads == 1..NumThreads

ConcInputs == {<<NameSpace, RecA>>, <<NameUnder, RecB>>, <<NameC, RecB>>}

\* the file after a write of bytes at offset off
WriteAt(file, off, bytes) ==
    SubSeq(file, 1, off) \o bytes \o SubSeq(file, off + Len(bytes) + 1, Len(file))

ConcInit ==
    /\ store = <<>>
    /\ resp = Idle
    /\ hist = [done |-> <<>>]
    /\ thr = [t \in Threads |-> [pc |-> "idle", name |-> <<>>, data |-> <<>>]]
    /\ doc = <<>>

Begin(t, name, data) ==
    /\ thr[t].pc = "idle"
    /\ thr' = [thr EXCEPT ![t] = [pc |-> "open", name |-> name, data |-> data]]
    /\ UNCHANGED <<store, resp, hist, doc>>

Open(t) ==
    /\ thr[t].pc = "open"
    /\ store' = (FileName(thr[t].name) :> <<>>) @@ store
    /\ thr' = [thr EXCEPT ![t].pc = "write"]
    /\ UNCHANGED <<resp, hist, doc>>

Write(t) ==
    /\ thr[t].pc = "write"
    /\ LET fn == FileName(thr[t].name)
       IN  store' = [store EXCEPT ![fn] = WriteAt(@, 0, Dump(thr[t].data).text)]
    /\ thr' = [thr EXCEPT ![t].pc = "close"]
    /\ UNCHANGED <<resp, hist, doc>>

Close(t) ==
    /\ thr[t].pc = "close"
    /\ thr' = [thr EXCEPT ![t].pc = "done"]
    /\ hist' = [hist EXCEPT !.done = Append(@, t)]
    /\ UNCHANGED <<store, resp, doc>>

ConcLoad(name) ==
    /\ resp = Idle
    /\ \A t \in Threads : thr[t].pc = "done"
    /\ resp' = [op |-> "load", name |-> name,
                result |-> load_resume_data(store, name)]
    /\ UNCHANGED <<store, hist, thr, doc>>

ConcNext ==
    \/ \E t \in Threads, in \in ConcInputs : Begin(t, in[1], in[2])
    \/ \E t \in Threads : Open(t)
    \/ \E t \in Threads : Write(t)
    \/ \E t \in Threads : Close(t)
    \/ \E name \in {NameSpace, NameC} : ConcLoad(name)

ConcSpec == ConcInit /\ [][ConcNext]_vars

----------------------------------------------------------------------------
(* Properties of the document store, under Spec                            *)

\* a dict as a mapping: equal mappings are deep-equal dicts
AsMapping(d) ==
    [k \in {d[i][1] : i \in 1..Len(d)} |->
        d[CHOOSE i \in 1..Len(d) :
            d[i][1] = k /\ \A j \in 1..Len(d) : d[j][1] = k => j <= i][2]]

DeepEqual(result, data) ==
    result.kind = "value" /\ AsMapping(result.val) = AsMapping(data)

LatestSaveOfKeyWins ==
    hist.clean =>
        \A n \in Names :
            load_resume_data(store, n) =
                IF Key(n) \in DOMAIN hist.last
                THEN Value(hist.last[Key(n)].data)
                ELSE None

\* load("a_b") has returned the record saved as "a b", which replaced one
\* saved under another display name
LatestSaveWitness ==
    /\ hist.clean /\ hist.ops = 3
    /\ resp.op = "load" /\ resp.name = NameUnder
    /\ Key(NameUnder) \in DOMAIN hist.last
    /\ hist.last[Key(NameUnder)].name = NameSpace
    /\ resp.result = Value(RecA)

\* bytes that are no JSON text
NotJson(bytes) == ReadRaises(bytes) \/ ~Decode(bytes).ok

\* C3: a load of a name whose file holds bytes that are no JSON returns None
\* and raises nothing.
CorruptFileLoadsAsNone ==
    /\ resp.op = "load"
    /\ Key(resp.name) \o Suffix \in DOMAIN store
    /\ NotJson(store[Key(resp.name) \o Suffix])
    => resp.result = None

\* a display name from a key: each underscore a space
Unkey(key) == [i \in DOMAIN key |-> IF key[i] = "_" THEN " " ELSE key[i]]

\* C6: when every write so far was a save that completed, list() returns
\* the display names recovered from the keys saved, one per key.
ListRecoversNames ==
    hist.clean /\ resp.op = "list" =>
        /\ {resp.names[i] : i \in 1..Len(resp.names)} =
               {Unkey(k) : k \in DOMAIN hist.last}
        /\ Len(resp.names) = Cardinality(DOMAIN hist.last)

\* C8: a download of a file name that SAVE_DIR does not hold answers 404
\* with the not-found message, which is no file of the store and not empty;
\* a download of one it holds answers with the bytes of that file.
DownloadReportsMissing ==
    resp.op = "download" =>
        IF resp.filename \in DOMAIN store
        THEN resp.result = [status |-> 200, body |-> store[resp.filename]]
        ELSE /\ resp.result.status = 404
             /\ resp.result.body # <<>>
             /\ \A f \in DOMAIN store : resp.result.body # store[f]

\* "a b_resume.json" was asked for while a_b_resume.json exists: 404
DownloadMissingWitness ==
    /\ resp.op = "download" /\ resp.filename = NameSpace \o Suffix
    /\ FileName(NameSpace) \in DOMAIN store
    /\ resp.result.status = 404

\* C10: a save that raised leaves load(N) as it was before the save.
FailedSaveKeepsRecord ==
    resp.op = "save" /\ resp.exc # NoExc
        => load_resume_data(store, resp.name) = resp.before

----------------------------------------------------------------------------
(* Properties of the requests, under RequestSpec                           *)

\* C4: save_resume_data lets no exception out, whatever open, json.dump or
\* the write raise, and index then answers with the page.
SaveNeverRaises ==
    resp.op \in {"save", "index"} =>
        /\ ~resp.propagated
        /\ resp.op = "index" => resp.status = 200

\* index has answered with the page after the open of its save failed
SaveNeverRaisesWitness ==
    /\ resp.op = "index" /\ resp.exc = "OSError" /\ resp.status = 200
    /\ resp.page.resume_text = Str(Strip(GenText))

\* C7: each generation call answers a failed upstream call with one fixed
\* text, whatever the error, and the request goes on to the page.
PlaceholdersAreFixed ==
    /\ \A c \in {"resume", "ats", "cover"} :
           Cardinality(hist.placeholders[c]) <= 1
    /\ resp.op = "index" => resp.status = 200

----------------------------------------------------------------------------
(* Property of concurrent saves, under ConcSpec                            *)

\* C9: when two threads have completed saves of the same key, load returns
\* the record of one of them in full: no mixture, and not None.
LastWriterWins ==
    \A t \in Threads, u \in Threads :
        /\ t # u
        /\ thr[t].pc = "done" /\ thr[u].pc = "done"
        /\ Key(thr[t].name) = Key(thr[u].name)
        => load_resume_data(store, thr[t].name)
               \in {Value(thr[t].data), Value(thr[u].data)}

----------------------------------------------------------------------------
(* Property of save_to_pdf, under RenderSpec                               *)

\* the stars that end at line[i]
RECURSIVE StarRun(_, _)
StarRun(line, i) ==
    IF i = 0 \/ line[i] # "*" THEN 0 ELSE 1 + StarRun(line, i - 1)

\* line with every "**" removed: of a run of stars the last one stays when
\* the run is odd
WithoutMarkers(line) ==
    LET stays(i) == \/ line[i] # "*"
                    \/ /\ StarRun(line, i) % 2 = 1
                       /\ (i = Len(line) \/ line[i + 1] # "*")
        kept == {i \in 1..Len(line) : stays(i)}
        nth(k) == CHOOSE i \in kept : Cardinality({j \in kept : j <= i}) = k
    IN  [k \in 1..Cardinality(kept) |-> line[nth(k)]]

WithoutHyphens(line) == SelectSeq(line, LAMBDA c : c # "-")

HasMarker(line) ==
    \E i \in 1..(Len(line) - 1) : line[i] = "*" /\ line[i + 1] = "*"

HasHyphen(line) == \E i \in 1..Len(line) : line[i] = "-"

\* the entries the claim gives a line
EntriesOf(line) ==
    IF HasMarker(line)
    THEN << [kind |-> "Spacer", text |-> <<>>, style |-> "0.2 inch"],
            [kind |-> "Paragraph", style |-> "Heading2",
             text |-> <<"<", "b", ">">> \o WithoutMarkers(line)
                      \o <<"<", "/", "b", ">">>] >>
    ELSE IF HasHyphen(line)
    THEN << [kind |-> "Paragraph", style |-> "Normal",
             text |-> <<"U+2022", " ">> \o WithoutHyphens(line)] >>
    ELSE << [kind |-> "Paragraph", style |-> "Normal", text |-> line] >>

RECURSIVE EntriesFrom(_, _)
EntriesFrom(lines, i) ==
    IF i > Len(lines) THEN <<>>
    ELSE EntriesOf(lines[i]) \o EntriesFrom(lines, i + 1)

Blank(text) == \A i \in 1..Len(text) : text[i] \in {" ", "\n"}

\* C5: the elements are the title "Resume" and a spacer, then the entries
\* of the lines in order: of the one line "No content available." for a
\* blank text; a spacer and a heading for a line with "**", a bullet
\* paragraph for another line with "-", the line itself otherwise.
RenderedElements ==
    doc.built =>
        LET shown == IF Blank(doc.text) THEN NoContent ELSE doc.text
            body == SubSeq(doc.elements, 3, Len(doc.elements))
        IN  /\ Len(doc.elements) >= 3
            /\ doc.elements[1] =
                  [kind |-> "Paragraph", style |-> "Title",
                   text |-> <<"<", "b", ">", "R", "e", "s", "u", "m", "e",
                              "<", "/", "b", ">">>]
            /\ doc.elements[2] = [kind |-> "Spacer", text |-> <<>>,
                                  style |-> "0.2 inch"]
            /\ LET cuts == {i \in 1..Len(shown) : shown[i] = "\n"}
                   n == Cardinality(cuts) + 1
                   edge(k) ==
                       IF k = 0 THEN 0
                       ELSE IF k = n THEN Len(shown) + 1
                       ELSE CHOOSE c \in cuts :
                              Cardinality({d \in cuts : d <= c}) = k
                   lines == [k \in 1..n |->
                               SubSeq(shown, edge(k - 1) + 1, edge(k) - 1)]
               IN  body = EntriesFrom(lines, 1)

\* the text "**-" was rendered: one heading, no bullet
RenderedWitness ==
    /\ doc.built /\ doc.text = <<"*", "*", "-">>
    /\ Len(doc.elements) = 4
    /\ doc.elements[4].style = "Heading2"
    /\ doc.elements[4].text = <<"<", "b", ">", "-", "<", "/", "b", ">">>

====
